---- MODULE Spec2Model ----
(***************************************************************************)
(* Job lifecycle of the leadscraper dashboard's local-mode polling routes: *)
(*   /api/scrape     src/dashboard/src/app/api/scrape/route.ts             *)
(*   /api/enrich     src/unnamed/part_005                                  *)
(*   /api/re-enrich  src/dashboard/src/app/api/re-enrich/route.ts          *)
(*                                                                         *)
(* Each route file is a module of its own: its job store is a module-level *)
(* variable no other route reads or writes.  The three routes therefore    *)
(* share no state, and the model explores one route module per behaviour:  *)
(* `route` is chosen in Init and never changes.                            *)
(*                                                                         *)
(* Local mode only (SCRAPER_API_URL unset): in remote mode every handler   *)
(* is a proxy to a server that is not part of this repository.             *)
(*                                                                         *)
(* The child process (python3 main.py ...) is the environment.  Its output *)
(* is an input: any sequence of lines may arrive.  Its events follow the   *)
(* contract Node documents for ChildProcess: 'data' on stdout/stderr until *)
(* the streams close, at most one 'error', and 'close' as the last event;  *)
(* 'exit'/'close' may or may not follow an 'error', with any exit code.    *)
(***************************************************************************)
EXTENDS Integers, Sequences, FiniteSets, TLC

VARIABLES
  route,        \* which route module this behaviour runs
  now,          \* the clock, in ms, at the last Date.now() / new Date() a handler read
  child,        \* spawned child processes: spawn number -> "alive" | "errored" | "closed"
  runningJobs,  \* scrape/route.ts: Map jobId -> job
  enrichJob,    \* part_005: let enrichJob (Null or a job)
  reEnrichJob,  \* re-enrich/route.ts: let reEnrichJob (Null or a job)
  resp,         \* the last HTTP response a handler returned; of a GET it keeps
                \* the status code: the whole answer is the GET's ...GETResponse
                \* operator in the state the GET runs in
  leads,        \* prisma.lead: the ids of the leads in the store
  calls,        \* enrich/leads/route.ts: the POST calls awaiting their child;
                \* `exit` is the event that resolved the call, not in the source
  page,         \* the state of the client component that is mounted: ScrapePage,
                \* EnrichButton or ReEnrichButton, LeadsTable, ScrapeForm; Null
                \* while the routes are taken on their own
  log           \* an output log handed to the parseProgress functions

vars == <<route, now, child, runningJobs, enrichJob, reEnrichJob, resp,
          leads, calls, page, log>>

\* what the job routes and their children never touch
storeVars == <<leads, calls, log>>

----------------------------------------------------------------------------
\* Bounds of the model.
MaxJobs == 2   \* child processes spawned by one route module
MaxLines == 2   \* stdout/stderr lines held by the jobs of the route
MaxChunk == 2   \* "\n"-separated pieces in one data chunk
MaxTicks == 2   \* clock ticks in a behaviour
MaxRounds == 2   \* poll rounds of the scrape page in progress at once
MaxSubmits == 1   \* times the form of the scrape page is submitted
MaxPolls == 2   \* polls of a button in flight at once
MaxRequests == 2   \* enrichment requests of the leads table in flight at once
MaxCities == 2   \* cities picked in the scrape form at once
MaxLeads == 2   \* leads in the store
MaxIds == 2   \* entries of an ids array in a request body
MaxShort == 3   \* leading lines of a parsed log that may be any known line
MaxLog == 24   \* lines of a parsed log

\* The clock is an input of the handlers that read it: between two reads it
\* has advanced by some number of ticks of ten minutes, so that a job is seen
\* at the age of exactly ten minutes, which cleanOldJobs keeps, and at twenty.
TickMs == 10 * 60 * 1000
Elapsed == 0..MaxTicks

\* cleanOldJobs: const cutoff = Date.now() - 10 * 60 * 1000
RetentionMs == 10 * 60 * 1000

Routes == {"scrape", "enrich", "reenrich", "leads", "enrichleads"}
JobIds == 1..MaxJobs

\* JavaScript null
Null == [null |-> TRUE]

----------------------------------------------------------------------------
\* Output lines.  A line is the text one regular expression of a parser
\* recognises, with the numbers (\d+ groups, parseInt base 10) and the
\* business name ((.+?) group) it carries:
\*   "found_new"  "<a> found, <b> new"
\*   "enriched"   "Enriched: <name> | ..."
\*   "progress"   "Enrichment progress: <a>/<b>"
\*   "auto"       "Auto-enriching <a> ..."
\*   "total"      "Total: <a> | Success: <b>"
\*   "summary"    "Found: <a> | New: <b>"
\*   "stale"      "Found <a> stale ..."
\*   "reset"      "Reset <a> leads ..."
\*   "error"      "ERROR ... Failed ..." (no parser pattern matches it)
\*   "process"    "Process error: <message>" (pushed by the 'error' handler)
\*   "empty"      "" (what split("\n") yields between and after newlines)
Line(k, x, y, n) == [kind |-> k, a |-> x, b |-> y, name |-> n]

EmptyLine      == Line("empty", 0, 0, "")
ErrorLine      == Line("error", 0, 0, "")
ProcessErrLine == Line("process", 0, 0, "")
EnrichedLine   == Line("enriched", 0, 0, "Acme")

\* The lines the child of each route is taken to print.
ChildLines(r) ==
  CASE r = "scrape"   -> { EnrichedLine, ErrorLine, Line("auto", 1, 0, "") }
    [] r = "enrich"   -> { EnrichedLine, ErrorLine, Line("progress", 1, 1, "") }
    [] r = "reenrich" -> { EnrichedLine, ErrorLine, Line("stale", 1, 0, "") }
    [] r = "enrichleads" -> { EnrichedLine, ErrorLine }

RECURSIVE SeqsUpTo(_, _)
SeqsUpTo(S, n) ==
  IF n = 0 THEN { <<>> }
  ELSE LET shorter == SeqsUpTo(S, n - 1) IN
       shorter \cup { Append(s, x) : s \in { t \in shorter : Len(t) = n - 1 }, x \in S }

\* A data chunk: the pieces data.toString().split("\n") yields.
Chunks(r) == SeqsUpTo(ChildLines(r) \cup {EmptyLine}, MaxChunk) \ { <<>> }
ScrapeChunks   == Chunks("scrape")
EnrichChunks   == Chunks("enrich")
ReEnrichChunks == Chunks("reenrich")
EnrichLeadsChunks == Chunks("enrichleads")

\* data.toString().split("\n").filter(Boolean)
SplitLines(chunk) == SelectSeq(chunk, LAMBDA l : l.kind # "empty")

IsPrefix(s, t) == Len(s) <= Len(t) /\ SubSeq(t, 1, Len(s)) = s

----------------------------------------------------------------------------
\* The <<current, total>> with total <= 100 and current <= 200 for which
\* (current / total) * 100, evaluated in IEEE-754 double arithmetic as
\* JavaScript does, falls just below a half the exact quotient sits on:
\* (23 / 40) * 100 is 57.49999999999999, not 57.5.
BelowHalf == { <<23, 40>>, <<41, 40>>, <<51, 40>>, <<46, 80>>, <<82, 80>>, <<102, 80>> }

\* Math.round((current / total) * 100) for current >= 0, total > 0:
\* Math.round rounds a half up
RoundPercent(current, total) ==
  IF <<current, total>> \in BelowHalf
  THEN (100 * current) \div total
  ELSE (200 * current + total) \div (2 * total)

\* the loop body keeping the counts of the last page instead of adding them
ScrapeLineLastPage(acc, line) ==
  LET s1 == IF line.kind = "found_new"
            THEN [acc EXCEPT !.leadsFound = line.a, !.leadsNew = line.b]
            ELSE acc
      s2 == IF line.kind = "enriched"
            THEN [s1 EXCEPT !.current = @ + 1, !.lastBusiness = line.name]
            ELSE s1
      s3 == IF line.kind = "progress"
            THEN [s2 EXCEPT !.current = line.a, !.total = line.b]
            ELSE s2
      s4 == IF line.kind = "auto"
            THEN [s3 EXCEPT !.total = line.a, !.current = 0]
            ELSE s3
      s5 == IF line.kind = "total"
            THEN [s4 EXCEPT !.total = line.a, !.current = line.a]
            ELSE s4
  IN  IF line.kind = "summary"
      THEN [s5 EXCEPT !.leadsFound = line.a, !.leadsNew = line.b]
      ELSE s5

\* scrape/route.ts parseProgress, the loop body (lines 66-100)
ScrapeLine(acc, line) ==
  LET s1 == IF line.kind = "found_new"
            THEN [acc EXCEPT !.leadsFound = @ + line.a, !.leadsNew = @ + line.b]
            ELSE acc
      s2 == IF line.kind = "enriched"
            THEN [s1 EXCEPT !.current = @ + 1, !.lastBusiness = line.name]
            ELSE s1
      s3 == IF line.kind = "progress"
            THEN [s2 EXCEPT !.current = line.a, !.total = line.b]
            ELSE s2
      s4 == IF line.kind = "auto"
            THEN [s3 EXCEPT !.total = line.a, !.current = 0]
            ELSE s3
      s5 == IF line.kind = "total"
            THEN [s4 EXCEPT !.total = line.a, !.current = line.a]
            ELSE s4
  IN  IF line.kind = "summary"
      THEN [s5 EXCEPT !.leadsFound = line.a, !.leadsNew = line.b]
      ELSE s5

\* for (const line of output) { ... }
RECURSIVE ScrapeFold(_, _)
ScrapeFold(acc, output) ==
  IF output = << >> THEN acc
  ELSE ScrapeFold(ScrapeLine(acc, Head(output)), Tail(output))

\* scrape/route.ts parseProgress
parseProgressScrape(output) ==
  LET acc == ScrapeFold([current |-> 0, total |-> 0, leadsFound |-> 0,
                        leadsNew |-> 0, lastBusiness |-> ""],
                       output)
      total == IF acc.total = 0 /\ acc.current > 0 THEN acc.current ELSE acc.total
  IN  [current |-> acc.current, total |-> total,
       percent |-> IF total > 0 THEN RoundPercent(acc.current, total) ELSE 0,
       leadsFound |-> acc.leadsFound, leadsNew |-> acc.leadsNew,
       lastBusiness |-> acc.lastBusiness]

\* part_005 parseProgress, the loop body (lines 48-64)
EnrichLine(acc, line) ==
  LET s1 == IF line.kind = "enriched"
            THEN [acc EXCEPT !.current = @ + 1, !.lastBusiness = line.name]
            ELSE acc
      s2 == IF line.kind = "progress"
            THEN [s1 EXCEPT !.current = line.a, !.total = line.b]
            ELSE s1
  IN  IF line.kind = "total"
      THEN [s2 EXCEPT !.total = line.a, !.current = line.a]
      ELSE s2

\* for (const line of output) { ... }
RECURSIVE EnrichFold(_, _)
EnrichFold(acc, output) ==
  IF output = << >> THEN acc
  ELSE EnrichFold(EnrichLine(acc, Head(output)), Tail(output))

\* part_005 parseProgress
parseProgressEnrich(output) ==
  LET acc == EnrichFold([current |-> 0, total |-> 0, lastBusiness |-> ""],
                       output)
      total == IF acc.total = 0 /\ acc.current > 0 THEN acc.current ELSE acc.total
  IN  [current |-> acc.current, total |-> total,
       percent |-> IF total > 0 THEN RoundPercent(acc.current, total) ELSE 0,
       lastBusiness |-> acc.lastBusiness]

\* re-enrich/route.ts parseProgress, the loop body (lines 47-60)
ReEnrichLine(acc, line) ==
  LET s1 == IF line.kind = "stale" THEN [acc EXCEPT !.staleFound = line.a] ELSE acc
      s2 == IF line.kind = "reset" THEN [s1 EXCEPT !.total = line.a] ELSE s1
      s3 == IF line.kind = "enriched" THEN [s2 EXCEPT !.current = @ + 1] ELSE s2
  IN  IF line.kind = "total"
      THEN [s3 EXCEPT !.total = line.a, !.current = line.b]
      ELSE s3

\* for (const line of output) { ... }
RECURSIVE ReEnrichFold(_, _)
ReEnrichFold(acc, output) ==
  IF output = << >> THEN acc
  ELSE ReEnrichFold(ReEnrichLine(acc, Head(output)), Tail(output))

\* re-enrich/route.ts parseProgress
parseProgressReEnrich(output) ==
  LET acc == ReEnrichFold([staleFound |-> 0, current |-> 0, total |-> 0],
                       output)
      total == IF acc.total = 0 /\ acc.staleFound > 0 THEN acc.staleFound ELSE acc.total
  IN  [staleFound |-> acc.staleFound, current |-> acc.current, total |-> total,
       percent |-> IF total > 0 THEN RoundPercent(acc.current, total) ELSE 0]

----------------------------------------------------------------------------
\* Request bodies of the routes that take a list of lead ids.  A body is what
\* request.json() makes of it: it rejects ("invalid": no body, or not JSON),
\* or yields null, or a value whose ids / leadIds property is undefined, or
\* something that is not an array ("other"), or an array.  An array entry is
\* a number or, as "1", a string.
Num(n) == [type |-> "number", val |-> n]
Str(n) == [type |-> "string", val |-> n]
Items == { Num(1), Num(2), Num(0), Str(1) }
IdLists == SeqsUpTo(Items, MaxIds)
Undefined == [is |-> "undefined"]
NotAnArray == [is |-> "other"]
Array(items) == [is |-> "array", items |-> items]
Bodies ==
  { [json |-> "invalid"], [json |-> "null"] }
  \cup { [json |-> "value", ids |-> x] :
           x \in {Undefined, NotAnArray} \cup { Array(l) : l \in IdLists } }

\* !ids || !Array.isArray(ids) || ids.length === 0
NoIdArray(ids) == ids.is # "array" \/ ids.items = << >>

\* the rows of prisma.lead
LeadIds == 1..MaxLeads
Lead(id) == [id |-> id, businessName |-> "Acme"]
Stores == { [id \in S |-> Lead(id)] : S \in SUBSET LeadIds }

----------------------------------------------------------------------------
\* The state after the route modules are loaded.
Init ==
  /\ route \in Routes
  /\ now = 0
  /\ child = << >>
  /\ runningJobs = << >>
  /\ enrichJob = Null
  /\ reEnrichJob = Null
  /\ resp = [kind |-> "none"]
  /\ leads \in IF route = "leads" THEN Stores ELSE { << >> }
  /\ calls = << >>
  /\ page = Null
  /\ log = << >>

Spawned == DOMAIN child
CanSpawn == Cardinality(Spawned) < MaxJobs
\* the spawn number of the next child; it stands for the child's handle and,
\* on the scrape route, for the job id `job_${Date.now()}_${random}`, taken
\* to be unique
NextChild == Cardinality(Spawned) + 1
\* 'data', 'error' and 'close' are emitted until the child has closed
Emitting(p) == p \in Spawned /\ child[p] # "closed"

ChildOut(output) == SelectSeq(output, LAMBDA l : l.kind # "process")
RECURSIVE SumLen(_, _)
SumLen(jobs, ids) ==
  IF ids = {} THEN 0
  ELSE LET j == CHOOSE x \in ids : TRUE
       IN  Len(ChildOut(jobs[j].output)) + SumLen(jobs, ids \ {j})
\* lines of child output the route's jobs hold
LinesHeld ==
  SumLen(runningJobs, DOMAIN runningJobs)
  + (IF enrichJob = Null THEN 0 ELSE Len(ChildOut(enrichJob.output)))
  + (IF reEnrichJob = Null THEN 0 ELSE Len(ChildOut(reEnrichJob.output)))
  + SumLen(calls, DOMAIN calls)
Room(chunk) == LinesHeld + Len(SplitLines(chunk)) <= MaxLines

\* code === 0 ? "completed" : "failed"
ExitStatus(code) == IF code = 0 THEN "completed" ELSE "failed"
ExitCodes == {0, 1}

\* Date.now() after `elapsed` more ticks
Clock(elapsed) == now + elapsed * TickMs
InTime(elapsed) == Clock(elapsed) <= MaxTicks * TickMs

----------------------------------------------------------------------------
\* /api/scrape

\* cleanOldJobs with `<=` for `<`: a job is dropped at exactly ten minutes
cleanOldJobsAtCutoff(jobs, t) ==
  LET cutoff == t - RetentionMs
      keep == { id \in DOMAIN jobs :
                  ~(jobs[id].status # "running" /\ jobs[id].startedAt <= cutoff) }
  IN  [id \in keep |-> jobs[id]]

\* cleanOldJobs without `job.status !== "running"`: old running jobs are dropped
cleanOldJobsAnyStatus(jobs, t) ==
  LET cutoff == t - RetentionMs
      keep == { id \in DOMAIN jobs : ~(jobs[id].startedAt < cutoff) }
  IN  [id \in keep |-> jobs[id]]

\* cleanOldJobs: the registry without the finished jobs older than the cutoff
cleanOldJobs(jobs, t) ==
  LET cutoff == t - RetentionMs
      keep == { id \in DOMAIN jobs :
                  ~(jobs[id].status # "running" /\ jobs[id].startedAt < cutoff) }
  IN  [id \in keep |-> jobs[id]]

\* the data handler failing the job on a line that reports an error
ScrapePushFailsOnError(job, chunk) ==
  [job EXCEPT !.output = @ \o SplitLines(chunk),
              !.status = IF \E i \in 1..Len(chunk) : chunk[i].kind = "error"
                         THEN "failed" ELSE @]

\* job.output.push(...data.toString().split("\n").filter(Boolean))
ScrapePush(job, chunk) == [job EXCEPT !.output = @ \o SplitLines(chunk)]

\* the close handler recording a failure only
ScrapeOnCloseFailureOnly(entry, code) ==
  IF code = 0 THEN entry ELSE [entry EXCEPT !.status = "failed"]

\* child.on("close"): entry.status = code === 0 ? "completed" : "failed"
ScrapeOnClose(entry, code) == [entry EXCEPT !.status = ExitStatus(code)]

\* child.on("error")
ScrapeOnError(entry) ==
  [entry EXCEPT !.status = "failed", !.output = Append(@, ProcessErrLine)]

\* POST /api/scrape with localPost, as the route module runs it, whoever sent
\* the request; "" stands for a missing body field
ScrapeHandlePOST(category, location, elapsed) ==
  /\ route = "scrape"
  /\ IF category = "" \/ location = ""
     THEN /\ resp' = [kind |-> "error", code |-> 400]
          /\ UNCHANGED <<runningJobs, child, now>>
     ELSE /\ CanSpawn /\ InTime(elapsed)
          /\ now' = Clock(elapsed)
          /\ LET jobId == NextChild
                 kept  == cleanOldJobs(runningJobs, Clock(elapsed))
                 job   == [process |-> jobId, status |-> "running", output |-> << >>,
                           startedAt |-> Clock(elapsed),
                           params |-> [category |-> category, location |-> location]]
             IN  /\ runningJobs' = [id \in DOMAIN kept \cup {jobId} |->
                                      IF id = jobId THEN job ELSE kept[id]]
                 /\ child' = [p \in Spawned \cup {jobId} |->
                                IF p = jobId THEN "alive" ELSE child[p]]
                 /\ resp' = [kind |-> "started", code |-> 200, jobId |-> jobId,
                             status |-> "running"]
  /\ UNCHANGED <<route, enrichJob, reEnrichJob>>
  /\ UNCHANGED storeVars

\* POST /api/scrape from a client other than the page
ScrapePOST(category, location, elapsed) ==
  ScrapeHandlePOST(category, location, elapsed) /\ UNCHANGED page

\* child.stdout.on("data") of the scrape job jobId: pushes to the job object it
\* closed over, which is the registry's entry while the entry is there
ScrapeStdout(jobId, chunk) ==
  /\ route = "scrape" /\ Emitting(jobId) /\ Room(chunk)
  /\ runningJobs' = [id \in DOMAIN runningJobs |->
                       IF id = jobId THEN ScrapePush(runningJobs[id], chunk)
                       ELSE runningJobs[id]]
  /\ UNCHANGED <<route, now, child, enrichJob, reEnrichJob, resp>>
  /\ UNCHANGED <<storeVars, page>>

\* child.stderr.on("data")
ScrapeStderr(jobId, chunk) ==
  /\ route = "scrape" /\ Emitting(jobId) /\ Room(chunk)
  /\ runningJobs' = [id \in DOMAIN runningJobs |->
                       IF id = jobId THEN ScrapePush(runningJobs[id], chunk)
                       ELSE runningJobs[id]]
  /\ UNCHANGED <<route, now, child, enrichJob, reEnrichJob, resp>>
  /\ UNCHANGED <<storeVars, page>>

\* child.on("close", code)
ScrapeClose(jobId, code) ==
  /\ route = "scrape" /\ Emitting(jobId)
  /\ child' = [child EXCEPT ![jobId] = "closed"]
  /\ runningJobs' = [id \in DOMAIN runningJobs |->
                       IF id = jobId THEN ScrapeOnClose(runningJobs[id], code)
                       ELSE runningJobs[id]]
  /\ UNCHANGED <<route, now, enrichJob, reEnrichJob, resp>>
  /\ UNCHANGED <<storeVars, page>>

\* child.on("error", err)
ScrapeError(jobId) ==
  /\ route = "scrape" /\ jobId \in Spawned /\ child[jobId] = "alive"
  /\ child' = [child EXCEPT ![jobId] = "errored"]
  /\ runningJobs' = [id \in DOMAIN runningJobs |->
                       IF id = jobId THEN ScrapeOnError(runningJobs[id])
                       ELSE runningJobs[id]]
  /\ UNCHANGED <<route, now, enrichJob, reEnrichJob, resp>>
  /\ UNCHANGED <<storeVars, page>>

\* localGet(jobId): null, or the job's view
localGet(jobId) ==
  IF jobId \notin DOMAIN runningJobs THEN Null
  ELSE LET job == runningJobs[jobId]
       IN  [jobId |-> jobId, status |-> job.status, output |-> job.output,
            params |-> job.params, startedAt |-> job.startedAt,
            progress |-> parseProgressScrape(job.output)]

\* what GET /api/scrape?jobId=... answers
ScrapeGETResponse(jobId) ==
  IF localGet(jobId) = Null
  THEN [code |-> 404, body |-> [error |-> "Job not found"]]
  ELSE [code |-> 200, body |-> localGet(jobId)]

\* GET /api/scrape?jobId=..., as the route module runs it
ScrapeHandleGET(jobId) ==
  /\ route = "scrape"
  /\ resp' = [kind |-> "get", code |-> ScrapeGETResponse(jobId).code]
  /\ UNCHANGED <<route, now, child, runningJobs, enrichJob, reEnrichJob>>
  /\ UNCHANGED storeVars

\* GET /api/scrape?jobId=... from a client other than the page
ScrapeGET(jobId) == ScrapeHandleGET(jobId) /\ UNCHANGED page

----------------------------------------------------------------------------
\* /api/enrich
\* The job record carries `ref`, the spawn number of the child it was created
\* for: it stands for the identity of the record object and is not a field
\* of the source's record.

\* the data handler assigning the new lines instead of pushing them
EnrichPushOverwrite(job, chunk) ==
  IF job = Null THEN job ELSE [job EXCEPT !.output = SplitLines(chunk)]

\* enrichJob?.output.push(...data.toString().split("\n").filter(Boolean))
EnrichPush(job, chunk) ==
  IF job = Null THEN job ELSE [job EXCEPT !.output = @ \o SplitLines(chunk)]

\* child.on("close"): if (enrichJob) enrichJob.status = code === 0 ? "completed" : "failed"
EnrichOnClose(job, code) ==
  IF job = Null THEN job ELSE [job EXCEPT !.status = ExitStatus(code)]

\* child.on("error")
EnrichOnError(job) ==
  IF job = Null THEN job
  ELSE [job EXCEPT !.status = "failed", !.output = Append(@, ProcessErrLine)]

\* if (enrichJob?.status === "running") return 409
EnrichBusy(job) == job # Null /\ job.status = "running"

\* POST /api/enrich; bodyLimit = 0 stands for a body without a limit
EnrichHandlePOST(bodyLimit, elapsed) ==
  /\ route = "enrich"
  /\ LET limit == IF bodyLimit = 0 THEN 100 ELSE bodyLimit IN
     IF EnrichBusy(enrichJob)
     THEN /\ resp' = [kind |-> "error", code |-> 409, status |-> "running"]
          /\ UNCHANGED <<enrichJob, child, now>>
     ELSE /\ CanSpawn /\ InTime(elapsed)
          /\ now' = Clock(elapsed)
          /\ enrichJob' = [ref |-> NextChild, status |-> "running", output |-> << >>,
                           startedAt |-> Clock(elapsed), limit |-> limit]
          /\ child' = [p \in Spawned \cup {NextChild} |->
                         IF p = NextChild THEN "alive" ELSE child[p]]
          /\ resp' = [kind |-> "started", code |-> 200, status |-> "running",
                      limit |-> limit]
  /\ UNCHANGED <<route, runningJobs, reEnrichJob>>
  /\ UNCHANGED storeVars

\* POST /api/enrich from a client other than the button
EnrichPOST(bodyLimit, elapsed) == EnrichHandlePOST(bodyLimit, elapsed) /\ UNCHANGED page

\* child.stdout.on("data") of child p
EnrichStdout(p, chunk) ==
  /\ route = "enrich" /\ Emitting(p) /\ Room(chunk)
  /\ enrichJob' = EnrichPush(enrichJob, chunk)
  /\ UNCHANGED <<route, now, child, runningJobs, reEnrichJob, resp>>
  /\ UNCHANGED <<storeVars, page>>

\* child.stderr.on("data") of child p
EnrichStderr(p, chunk) ==
  /\ route = "enrich" /\ Emitting(p) /\ Room(chunk)
  /\ enrichJob' = EnrichPush(enrichJob, chunk)
  /\ UNCHANGED <<route, now, child, runningJobs, reEnrichJob, resp>>
  /\ UNCHANGED <<storeVars, page>>

\* child.on("close", code) of child p
EnrichClose(p, code) ==
  /\ route = "enrich" /\ Emitting(p)
  /\ child' = [child EXCEPT ![p] = "closed"]
  /\ enrichJob' = EnrichOnClose(enrichJob, code)
  /\ UNCHANGED <<route, now, runningJobs, reEnrichJob, resp>>
  /\ UNCHANGED <<storeVars, page>>

\* child.on("error", err) of child p
EnrichError(p) ==
  /\ route = "enrich" /\ p \in Spawned /\ child[p] = "alive"
  /\ child' = [child EXCEPT ![p] = "errored"]
  /\ enrichJob' = EnrichOnError(enrichJob)
  /\ UNCHANGED <<route, now, runningJobs, reEnrichJob, resp>>
  /\ UNCHANGED <<storeVars, page>>

\* the body GET /api/enrich answers with
EnrichView ==
  IF enrichJob = Null THEN [status |-> "idle"]
  ELSE [status |-> enrichJob.status, output |-> enrichJob.output,
        startedAt |-> enrichJob.startedAt, limit |-> enrichJob.limit,
        progress |-> parseProgressEnrich(enrichJob.output)]

\* what GET /api/enrich answers
EnrichGETResponse == [code |-> 200, body |-> EnrichView]

\* GET /api/enrich
EnrichHandleGET ==
  /\ route = "enrich"
  /\ resp' = [kind |-> "get", code |-> EnrichGETResponse.code]
  /\ UNCHANGED <<route, now, child, runningJobs, enrichJob, reEnrichJob>>
  /\ UNCHANGED storeVars

\* GET /api/enrich from a client other than the button
EnrichGET == EnrichHandleGET /\ UNCHANGED page

----------------------------------------------------------------------------
\* /api/re-enrich
\* The job record carries `ref`, the spawn number of the child it was created
\* for: it stands for the identity of the record object and is not a field
\* of the source's record.

\* reEnrichJob?.output.push(...data.toString().split("\n").filter(Boolean))
ReEnrichPush(job, chunk) ==
  IF job = Null THEN job ELSE [job EXCEPT !.output = @ \o SplitLines(chunk)]

\* child.on("close"): if (reEnrichJob) reEnrichJob.status = code === 0 ? "completed" : "failed"
ReEnrichOnClose(job, code) ==
  IF job = Null THEN job ELSE [job EXCEPT !.status = ExitStatus(code)]

\* child.on("error")
ReEnrichOnError(job) ==
  IF job = Null THEN job
  ELSE [job EXCEPT !.status = "failed", !.output = Append(@, ProcessErrLine)]

\* if (reEnrichJob?.status === "running") return 409
ReEnrichBusy(job) == job # Null /\ job.status = "running"

\* POST /api/re-enrich; 0 stands for a body without the field
ReEnrichHandlePOST(bodyDays, bodyLimit, elapsed) ==
  /\ route = "reenrich"
  /\ LET days  == IF bodyDays = 0 THEN 30 ELSE bodyDays
         limit == IF bodyLimit = 0 THEN 50 ELSE bodyLimit IN
     IF ReEnrichBusy(reEnrichJob)
     THEN /\ resp' = [kind |-> "error", code |-> 409, status |-> "running"]
          /\ UNCHANGED <<reEnrichJob, child, now>>
     ELSE /\ CanSpawn /\ InTime(elapsed)
          /\ now' = Clock(elapsed)
          /\ reEnrichJob' = [ref |-> NextChild, status |-> "running", output |-> << >>,
                             startedAt |-> Clock(elapsed)]
          /\ child' = [p \in Spawned \cup {NextChild} |->
                         IF p = NextChild THEN "alive" ELSE child[p]]
          /\ resp' = [kind |-> "started", code |-> 200, status |-> "running",
                      days |-> days, limit |-> limit]
  /\ UNCHANGED <<route, runningJobs, enrichJob>>
  /\ UNCHANGED storeVars

\* POST /api/re-enrich from a client other than the button
ReEnrichPOST(bodyDays, bodyLimit, elapsed) ==
  ReEnrichHandlePOST(bodyDays, bodyLimit, elapsed) /\ UNCHANGED page

\* child.stdout.on("data") of child p
ReEnrichStdout(p, chunk) ==
  /\ route = "reenrich" /\ Emitting(p) /\ Room(chunk)
  /\ reEnrichJob' = ReEnrichPush(reEnrichJob, chunk)
  /\ UNCHANGED <<route, now, child, runningJobs, enrichJob, resp>>
  /\ UNCHANGED <<storeVars, page>>

\* child.stderr.on("data") of child p
ReEnrichStderr(p, chunk) ==
  /\ route = "reenrich" /\ Emitting(p) /\ Room(chunk)
  /\ reEnrichJob' = ReEnrichPush(reEnrichJob, chunk)
  /\ UNCHANGED <<route, now, child, runningJobs, enrichJob, resp>>
  /\ UNCHANGED <<storeVars, page>>

\* child.on("close", code) of child p
ReEnrichClose(p, code) ==
  /\ route = "reenrich" /\ Emitting(p)
  /\ child' = [child EXCEPT ![p] = "closed"]
  /\ reEnrichJob' = ReEnrichOnClose(reEnrichJob, code)
  /\ UNCHANGED <<route, now, runningJobs, enrichJob, resp>>
  /\ UNCHANGED <<storeVars, page>>

\* child.on("error", err) of child p
ReEnrichError(p) ==
  /\ route = "reenrich" /\ p \in Spawned /\ child[p] = "alive"
  /\ child' = [child EXCEPT ![p] = "errored"]
  /\ reEnrichJob' = ReEnrichOnError(reEnrichJob)
  /\ UNCHANGED <<route, now, runningJobs, enrichJob, resp>>
  /\ UNCHANGED <<storeVars, page>>

\* the body GET /api/re-enrich answers with
ReEnrichView ==
  IF reEnrichJob = Null THEN [status |-> "idle"]
  ELSE [status |-> reEnrichJob.status, output |-> reEnrichJob.output,
        startedAt |-> reEnrichJob.startedAt,
        progress |-> parseProgressReEnrich(reEnrichJob.output)]

\* what GET /api/re-enrich answers
ReEnrichGETResponse == [code |-> 200, body |-> ReEnrichView]

\* GET /api/re-enrich
ReEnrichHandleGET ==
  /\ route = "reenrich"
  /\ resp' = [kind |-> "get", code |-> ReEnrichGETResponse.code]
  /\ UNCHANGED <<route, now, child, runningJobs, enrichJob, reEnrichJob>>
  /\ UNCHANGED storeVars

\* GET /api/re-enrich from a client other than the button
ReEnrichGET == ReEnrichHandleGET /\ UNCHANGED page

----------------------------------------------------------------------------
\* DELETE /api/leads

\* the filter accepting 0 as an id
validIdsDeleteFromZero(ids) ==
  SelectSeq(ids, LAMBDA id : id.type = "number" /\ id.val >= 0)

\* ids.filter((id) => typeof id === "number" && id > 0)
validIdsDelete(ids) ==
  SelectSeq(ids, LAMBDA id : id.type = "number" /\ id.val > 0)

\* deleteMany deleting the leads the list does not name
deleteManyOthers(rows, ids) ==
  LET named == { ids[i].val : i \in 1..Len(ids) }
  IN  [id \in DOMAIN rows \cap named |-> rows[id]]

\* prisma.lead.deleteMany({ where: { id: { in: validIds } } }): the rows left
deleteMany(rows, ids) ==
  LET named == { ids[i].val : i \in 1..Len(ids) }
  IN  [id \in DOMAIN rows \ named |-> rows[id]]

\* DELETE /api/leads; dbOk: the store answers the deleteMany
LeadsHandleDELETE(body, dbOk) ==
  /\ route = "leads"
  /\ IF body.json # "value"
     THEN \* request.json() rejects, or body.ids throws on null: the catch
          /\ resp' = [kind |-> "error", code |-> 500]
          /\ UNCHANGED leads
     ELSE IF NoIdArray(body.ids)
     THEN /\ resp' = [kind |-> "error", code |-> 400]
          /\ UNCHANGED leads
     ELSE IF validIdsDelete(body.ids.items) = << >>
     THEN /\ resp' = [kind |-> "error", code |-> 400]
          /\ UNCHANGED leads
     ELSE IF ~dbOk
     THEN /\ resp' = [kind |-> "error", code |-> 500]
          /\ UNCHANGED leads
     ELSE LET validIds == validIdsDelete(body.ids.items) IN
          /\ leads' = deleteMany(leads, validIds)
          /\ resp' = [kind |-> "deleted", code |-> 200,
                      deleted |-> Cardinality(DOMAIN leads \ DOMAIN leads'),
                      ids |-> validIds]
  /\ UNCHANGED <<route, now, child, runningJobs, enrichJob, reEnrichJob,
                 calls, log>>

\* DELETE /api/leads from a client other than the table
LeadsDELETE(body, dbOk) == LeadsHandleDELETE(body, dbOk) /\ UNCHANGED page

----------------------------------------------------------------------------
\* POST /api/enrich/leads
\* A call is one run of the handler that has spawned its child: the validIds
\* and the output array of its closure, and what its promise was resolved
\* with (Null until then).  The handler answers in the microtask that
\* follows resolve, before any other event is handled.

\* the filter accepting 0 as an id
validIdsEnrichFromZero(leadIds) ==
  SelectSeq(leadIds, LAMBDA id : id.type = "number" /\ id.val >= 0)

\* leadIds.filter((id) => typeof id === "number" && id > 0)
validIdsEnrich(leadIds) ==
  SelectSeq(leadIds, LAMBDA id : id.type = "number" /\ id.val > 0)

\* the status resolved on 'close' whatever the exit code
CloseResultCompleted(call, code) == [status |-> "completed", output |-> call.output]

\* resolve({ status: code === 0 ? "completed" : "failed", output })
CloseResult(call, code) == [status |-> ExitStatus(code), output |-> call.output]

\* resolve({ status: "failed", output: [`Process error: ${err.message}`] })
ErrorResult == [status |-> "failed", output |-> << ProcessErrLine >>]

\* NextResponse.json({ status: result.status, enrichedIds: validIds, output: result.output })
EnrichLeadsResponse(call, result) ==
  [kind |-> "enriched", code |-> 200, status |-> result.status,
   enrichedIds |-> call.validIds, output |-> result.output]

\* POST /api/enrich/leads up to the await; body.ids stands for body.leadIds
EnrichLeadsPOST(body) ==
  /\ route = "enrichleads"
  /\ IF body.json # "value"
     THEN \* request.json() rejects, or body.leadIds throws on null: the catch
          /\ resp' = [kind |-> "error", code |-> 500]
          /\ UNCHANGED <<calls, child>>
     ELSE IF NoIdArray(body.ids)
     THEN /\ resp' = [kind |-> "error", code |-> 400]
          /\ UNCHANGED <<calls, child>>
     ELSE IF validIdsEnrich(body.ids.items) = << >>
     THEN /\ resp' = [kind |-> "error", code |-> 400]
          /\ UNCHANGED <<calls, child>>
     ELSE /\ CanSpawn
          /\ LET c == NextChild
                 call == [validIds |-> validIdsEnrich(body.ids.items),
                          output |-> << >>, result |-> Null, exit |-> Null]
             IN  /\ calls' = [k \in DOMAIN calls \cup {c} |->
                                IF k = c THEN call ELSE calls[k]]
                 /\ child' = [p \in Spawned \cup {c} |->
                                IF p = c THEN "alive" ELSE child[p]]
          /\ UNCHANGED resp
  /\ UNCHANGED <<route, now, runningJobs, enrichJob, reEnrichJob, leads, page, log>>

\* child.stdout.on("data") of call c
EnrichLeadsStdout(c, chunk) ==
  /\ route = "enrichleads" /\ Emitting(c) /\ Room(chunk)
  /\ calls' = [calls EXCEPT ![c].output = @ \o SplitLines(chunk)]
  /\ UNCHANGED <<route, now, child, runningJobs, enrichJob, reEnrichJob, resp,
                 leads, page, log>>

\* child.stderr.on("data") of call c
EnrichLeadsStderr(c, chunk) ==
  /\ route = "enrichleads" /\ Emitting(c) /\ Room(chunk)
  /\ calls' = [calls EXCEPT ![c].output = @ \o SplitLines(chunk)]
  /\ UNCHANGED <<route, now, child, runningJobs, enrichJob, reEnrichJob, resp,
                 leads, page, log>>

\* child.on("close", code) of call c; a promise is resolved once
EnrichLeadsClose(c, code) ==
  /\ route = "enrichleads" /\ Emitting(c)
  /\ child' = [child EXCEPT ![c] = "closed"]
  /\ IF calls[c].result = Null
     THEN /\ calls' = [calls EXCEPT ![c].result = CloseResult(calls[c], code),
                                    ![c].exit = [code |-> code]]
          /\ resp' = EnrichLeadsResponse(calls[c], CloseResult(calls[c], code))
     ELSE UNCHANGED <<calls, resp>>
  /\ UNCHANGED <<route, now, runningJobs, enrichJob, reEnrichJob, leads, page, log>>

\* child.on("error", err) of call c
EnrichLeadsError(c) ==
  /\ route = "enrichleads" /\ c \in Spawned /\ child[c] = "alive"
  /\ child' = [child EXCEPT ![c] = "errored"]
  /\ IF calls[c].result = Null
     THEN /\ calls' = [calls EXCEPT ![c].result = ErrorResult,
                                    ![c].exit = [error |-> TRUE]]
          /\ resp' = EnrichLeadsResponse(calls[c], ErrorResult)
     ELSE UNCHANGED <<calls, resp>>
  /\ UNCHANGED <<route, now, runningJobs, enrichJob, reEnrichJob, leads, page, log>>

----------------------------------------------------------------------------
\* The parseProgress functions on their own: a log grows line by line and
\* each of the three functions is applied to it, as a GET does on every poll.

\* The lines of the logs: the per-page and summary counts of a scrape, the
\* per-lead and progress lines of an enrichment, the stale count of a
\* re-enrichment, and a line no pattern matches.
LogLines ==
  { Line("found_new", 25, 25, ""), Line("found_new", 25, 20, ""),
    Line("found_new", 10, 10, ""), Line("summary", 10, 5, ""),
    EnrichedLine, Line("progress", 23, 40, ""), Line("total", 40, 23, ""),
    Line("stale", 40, 0, ""), ErrorLine }

\* progress: parseProgress(job.output) of each route
Parsed(output) ==
  [kind |-> "parsed", scrape |-> parseProgressScrape(output),
   enrich |-> parseProgressEnrich(output),
   reenrich |-> parseProgressReEnrich(output)]

ParseInit ==
  /\ route = "parse"
  /\ now = 0
  /\ child = << >>
  /\ runningJobs = << >>
  /\ enrichJob = Null
  /\ reEnrichJob = Null
  /\ leads = << >>
  /\ calls = << >>
  /\ page = Null
  /\ log = << >>
  /\ resp = Parsed(log)

\* the log grows by one line and is parsed again
Parse(line) ==
  /\ route = "parse"
  /\ Len(log) < MaxLog
  /\ Len(log) < MaxShort \/ line = EnrichedLine
  /\ log' = Append(log, line)
  /\ resp' = Parsed(log')
  /\ UNCHANGED <<route, now, child, runningJobs, enrichJob, reEnrichJob,
                 leads, calls, page>>

ParseNext == \E line \in LogLines : Parse(line)

ParseSpec == ParseInit /\ [][ParseNext]_vars

----------------------------------------------------------------------------
\* The scrape page, scrape/page.tsx, with the scrape route it talks to.
\*   page.jobs    useState<RunningJob[]>: jobId, status and output of each job
\*                (params, startedAt and progress are never read by the page)
\*   page.start   the call of startScrape in progress or last finished: its
\*                params, the position (ci, li) of its two loops, the response
\*                data it waits to look at, and `sent`, the POSTs it has
\*                issued with their outcome, which is not in the source
\*   page.rounds  the calls of pollJobs in progress: the jobs each has still
\*                to poll, and the response data it waits to look at
\*   page.submits the number of calls of startScrape so far, not in the source
\* An await gives way to any other event, and responses to requests that are
\* in flight together may arrive in any order.

\* the arrays a form submits
CategoryLists == { << "plumbers" >>, << "", "plumbers" >>, << "plumbers", "roofers" >> }
LocationLists == { << "Miami, FL" >> }
\* what the child of a job of the page prints
PageChunks == { << EnrichedLine >> }

PageInit ==
  /\ route = "scrape"
  /\ now = 0
  /\ child = << >>
  /\ runningJobs = << >>
  /\ enrichJob = Null
  /\ reEnrichJob = Null
  /\ resp = [kind |-> "none"]
  /\ leads = << >>
  /\ calls = << >>
  /\ log = << >>
  /\ page = [jobs |-> << >>, start |-> Null, rounds |-> << >>, submits |-> 0]

\* the two for loops of startScrape have run out
LoopsDone(start) ==
  start.ci > Len(start.categories) \/ start.li > Len(start.locations)

\* fetch("/api/scrape", { method: "POST", ... }) is called for the pair the
\* loops are at
Post(start) ==
  [start EXCEPT !.sent = Append(@, [category |-> start.categories[start.ci],
                                    location |-> start.locations[start.li],
                                    outcome |-> "pending"])]

\* the loops stopping at the first POST that starts no job
AfterPostStopAtFailure(start, outcome) ==
  LET last == start.li = Len(start.locations)
  IN  [start EXCEPT !.sent = [@ EXCEPT ![Len(@)].outcome = outcome],
                    !.data = Null,
                    !.li = IF last THEN 1 ELSE @ + 1,
                    !.ci = IF outcome # "job" THEN Len(start.categories) + 1
                           ELSE IF last THEN @ + 1 ELSE @]

\* the end of the loop body: on to the next location, or the next category
AfterPost(start, outcome) ==
  LET last == start.li = Len(start.locations)
  IN  [start EXCEPT !.sent = [@ EXCEPT ![Len(@)].outcome = outcome],
                    !.data = Null,
                    !.li = IF last THEN 1 ELSE @ + 1,
                    !.ci = IF last THEN @ + 1 ELSE @]

\* the form calls startScrape(params)
startScrape(categories, locations) ==
  /\ page # Null
  /\ IF page.start = Null THEN TRUE ELSE LoopsDone(page.start)
  /\ page.submits < MaxSubmits
  /\ page' = [page EXCEPT !.start = [categories |-> categories, locations |-> locations,
                                     ci |-> 1, li |-> 1, sent |-> << >>, data |-> Null],
                          !.submits = @ + 1]
  /\ UNCHANGED <<route, now, child, runningJobs, enrichJob, reEnrichJob, resp,
                 leads, calls, log>>

\* await fetch("/api/scrape", { method: "POST", ... }): the route handles it
startScrapeFetch(elapsed) ==
  /\ page # Null /\ page.start # Null
  /\ ~LoopsDone(page.start) /\ page.start.data = Null
  /\ ScrapeHandlePOST(page.start.categories[page.start.ci],
                      page.start.locations[page.start.li], elapsed)
  /\ page' = [page EXCEPT !.start = [Post(@) EXCEPT !.data = resp']]

\* the fetch rejects: catch (err) { console.error(...) }
startScrapeCatch ==
  /\ page # Null /\ page.start # Null
  /\ ~LoopsDone(page.start) /\ page.start.data = Null
  /\ page' = [page EXCEPT !.start = AfterPost(Post(@), "threw")]
  /\ UNCHANGED <<route, now, child, runningJobs, enrichJob, reEnrichJob, resp,
                 leads, calls, log>>

\* const data = await res.json(); if (data.jobId) setJobs((prev) => [job, ...prev])
startScrapeSetJobs ==
  /\ page # Null /\ page.start # Null /\ page.start.data # Null
  /\ LET data == page.start.data IN
     IF data.kind = "started"
     THEN page' = [page EXCEPT
                     !.jobs = << [jobId |-> data.jobId, status |-> "running",
                                  output |-> << >>] >> \o @,
                     !.start = AfterPost(@, "job")]
     ELSE page' = [page EXCEPT !.start = AfterPost(@, "nojob")]
  /\ UNCHANGED <<route, now, child, runningJobs, enrichJob, reEnrichJob, resp,
                 leads, calls, log>>

\* jobs.filter((j) => j.status === "running"), as job ids
RunningIds(jobs) ==
  LET running == SelectSeq(jobs, LAMBDA j : j.status = "running")
  IN  [i \in 1..Len(running) |-> running[i].jobId]

\* the round is over when it has no job left to poll
Continue(rounds, r, round) ==
  IF round.todo = << >>
  THEN [i \in 1..(Len(rounds) - 1) |-> IF i < r THEN rounds[i] ELSE rounds[i + 1]]
  ELSE [rounds EXCEPT ![r] = round]

\* setInterval(pollJobs, 2000) fires; the interval is there while a job of
\* the page is running
pollJobs ==
  /\ page # Null
  /\ RunningIds(page.jobs) # << >>
  /\ Len(page.rounds) < MaxRounds
  /\ page' = [page EXCEPT !.rounds = Append(@, [todo |-> RunningIds(page.jobs),
                                                data |-> Null])]
  /\ UNCHANGED <<route, now, child, runningJobs, enrichJob, reEnrichJob, resp,
                 leads, calls, log>>

\* await fetch(`/api/scrape?jobId=${job.jobId}`): the route handles it
pollJobsFetch(r) ==
  /\ page # Null /\ r \in 1..Len(page.rounds)
  /\ page.rounds[r].data = Null
  /\ ScrapeHandleGET(Head(page.rounds[r].todo))
  /\ page' = [page EXCEPT !.rounds[r].data =
                             ScrapeGETResponse(Head(page.rounds[r].todo)).body]

\* the fetch rejects: catch { /* ignore poll errors */ }
pollJobsCatch(r) ==
  /\ page # Null /\ r \in 1..Len(page.rounds)
  /\ page.rounds[r].data = Null
  /\ page' = [page EXCEPT !.rounds = Continue(@, r, [todo |-> Tail(@[r].todo),
                                                     data |-> Null])]
  /\ UNCHANGED <<route, now, child, runningJobs, enrichJob, reEnrichJob, resp,
                 leads, calls, log>>

\* prev.map((j) => j.jobId === data.jobId ? { ...j, status, output, progress } : j)
MapJobs(jobs, data) ==
  [i \in 1..Len(jobs) |->
     IF jobs[i].jobId = data.jobId
     THEN [jobs[i] EXCEPT !.status = data.status, !.output = data.output]
     ELSE jobs[i]]

\* const data = await res.json(); if (data.jobId) setJobs(...)
pollJobsSetJobs(r) ==
  /\ page # Null /\ r \in 1..Len(page.rounds)
  /\ page.rounds[r].data # Null
  /\ LET data == page.rounds[r].data
         rest == [todo |-> Tail(page.rounds[r].todo), data |-> Null]
     IN  page' = [page EXCEPT
                    !.jobs = IF "jobId" \in DOMAIN data THEN MapJobs(@, data) ELSE @,
                    !.rounds = Continue(@, r, rest)]
  /\ UNCHANGED <<route, now, child, runningJobs, enrichJob, reEnrichJob, resp,
                 leads, calls, log>>

Rounds == 1..MaxRounds

PageNext ==
  \/ \E cs \in CategoryLists, ls \in LocationLists : startScrape(cs, ls)
  \/ \E e \in Elapsed : startScrapeFetch(e)
  \/ startScrapeCatch
  \/ startScrapeSetJobs
  \/ pollJobs
  \/ \E r \in Rounds : pollJobsFetch(r)
  \/ \E r \in Rounds : pollJobsCatch(r)
  \/ \E r \in Rounds : pollJobsSetJobs(r)
  \/ \E j \in JobIds, chunk \in PageChunks : ScrapeStdout(j, chunk)
  \/ \E j \in JobIds, chunk \in PageChunks : ScrapeStderr(j, chunk)
  \/ \E j \in JobIds, code \in ExitCodes : ScrapeClose(j, code)
  \/ \E j \in JobIds : ScrapeError(j)

PageSpec == PageInit /\ [][PageNext]_vars

----------------------------------------------------------------------------
\* The buttons EnrichButton and ReEnrichButton, each with the route it talks
\* to; `route` tells which of the two is mounted.
\*   page.state  useState<EnrichStatus>: its status; output, limit and
\*               progress are shown and decide nothing
\*   page.polls  the calls of poll in progress: the response data each waits
\*               to look at, Null while the route has not answered
\*   page.start  the call of startEnrich or startReEnrich in progress, with
\*               the response data it waits to look at, or Null
\* An await gives way to any other event, and responses to requests that are
\* in flight together may arrive in any order.  The first button is shown
\* when the dashboard counts a lead to enrich, which it is taken to do.

ButtonRoutes == {"enrich", "reenrich"}
\* what the child of a job of the button prints
ButtonChunks == { << EnrichedLine >> }
\* unenrichedCount, 0 when the dashboard could not count
ButtonLimits == {0}

\* the button after mounting: useEffect(() => { poll(); }, [poll]) has run
ButtonInit ==
  /\ route \in ButtonRoutes
  /\ now = 0
  /\ child = << >>
  /\ runningJobs = << >>
  /\ enrichJob = Null
  /\ reEnrichJob = Null
  /\ resp = [kind |-> "none"]
  /\ leads = << >>
  /\ calls = << >>
  /\ log = << >>
  /\ page = [state |-> [status |-> "idle"], polls |-> << [data |-> Null] >>,
             start |-> Null]

\* the GET of the button's route is handled
ButtonHandleGET ==
  \/ route = "enrich" /\ EnrichHandleGET
  \/ route = "reenrich" /\ ReEnrichHandleGET

\* the body the GET of the button's route answers with
ButtonView == IF route = "enrich" THEN EnrichView ELSE ReEnrichView

\* the POST of the button's route is handled: { limit: unenrichedCount || 100 }
\* from EnrichButton, { days: 30, limit: 50 } from ReEnrichButton
ButtonHandlePOST(limit, elapsed) ==
  \/ route = "enrich" /\ EnrichHandlePOST(limit, elapsed)
  \/ route = "reenrich" /\ ReEnrichHandlePOST(30, 50, elapsed)

\* the sequence without its i-th element
Without(seq, i) ==
  [k \in 1..(Len(seq) - 1) |-> IF k < i THEN seq[k] ELSE seq[k + 1]]

\* setInterval(poll, 2000) fires; the interval is there while state.status
\* is running
poll ==
  /\ page # Null
  /\ page.state.status = "running"
  /\ Len(page.polls) < MaxPolls
  /\ page' = [page EXCEPT !.polls = Append(@, [data |-> Null])]
  /\ UNCHANGED <<route, now, child, runningJobs, enrichJob, reEnrichJob, resp,
                 leads, calls, log>>

\* await fetch("/api/enrich"): the route handles it
pollFetch(i) ==
  /\ page # Null /\ i \in 1..Len(page.polls)
  /\ page.polls[i].data = Null
  /\ ButtonHandleGET
  /\ page' = [page EXCEPT !.polls[i].data = ButtonView]

\* setState((prev) => ({ ...prev, status: data.status, ... }))
pollSetState(state, data) == [state EXCEPT !.status = data.status]

\* const data = await res.json(); setState(...)
pollResponse(i) ==
  /\ page # Null /\ i \in 1..Len(page.polls)
  /\ page.polls[i].data # Null
  /\ page' = [page EXCEPT !.state = pollSetState(@, page.polls[i].data),
                          !.polls = Without(@, i)]
  /\ UNCHANGED <<route, now, child, runningJobs, enrichJob, reEnrichJob, resp,
                 leads, calls, log>>

\* the fetch rejects: catch { /* ignore */ }
pollCatch(i) ==
  /\ page # Null /\ i \in 1..Len(page.polls)
  /\ page.polls[i].data = Null
  /\ page' = [page EXCEPT !.polls = Without(@, i)]
  /\ UNCHANGED <<route, now, child, runningJobs, enrichJob, reEnrichJob, resp,
                 leads, calls, log>>

\* a click on the button, shown while state.status is not running:
\* setState({ status: "running", output: [] }) and the fetch of the POST
startEnrich ==
  /\ page # Null
  /\ page.state.status # "running"
  /\ page.start = Null
  /\ page' = [page EXCEPT !.state = [status |-> "running"],
                          !.start = [data |-> Null]]
  /\ UNCHANGED <<route, now, child, runningJobs, enrichJob, reEnrichJob, resp,
                 leads, calls, log>>

\* await fetch("/api/enrich", { method: "POST", ... }): the route handles it
startEnrichFetch(limit, elapsed) ==
  /\ page # Null /\ page.start # Null
  /\ page.start.data = Null
  /\ ButtonHandlePOST(limit, elapsed)
  /\ page' = [page EXCEPT !.start.data = resp']

\* const data = await res.json(); if (data.error) setState(... status: "running")
startEnrichResponse ==
  /\ page # Null /\ page.start # Null
  /\ page.start.data # Null
  /\ page' = [page EXCEPT
                 !.state = IF page.start.data.kind = "error"
                           THEN [@ EXCEPT !.status = "running"] ELSE @,
                 !.start = Null]
  /\ UNCHANGED <<route, now, child, runningJobs, enrichJob, reEnrichJob, resp,
                 leads, calls, log>>

\* the fetch rejects: setState({ status: "failed", output: [...] })
startEnrichCatch ==
  /\ page # Null /\ page.start # Null
  /\ page.start.data = Null
  /\ page' = [page EXCEPT !.state = [status |-> "failed"], !.start = Null]
  /\ UNCHANGED <<route, now, child, runningJobs, enrichJob, reEnrichJob, resp,
                 leads, calls, log>>

Polls == 1..MaxPolls

ButtonNext ==
  \/ poll
  \/ \E i \in Polls : pollFetch(i)
  \/ \E i \in Polls : pollResponse(i)
  \/ \E i \in Polls : pollCatch(i)
  \/ startEnrich
  \/ \E n \in ButtonLimits, e \in Elapsed : startEnrichFetch(n, e)
  \/ startEnrichResponse
  \/ startEnrichCatch
  \/ \E p \in JobIds, chunk \in ButtonChunks : EnrichStdout(p, chunk)
  \/ \E p \in JobIds, chunk \in ButtonChunks : EnrichStderr(p, chunk)
  \/ \E p \in JobIds, code \in ExitCodes : EnrichClose(p, code)
  \/ \E p \in JobIds : EnrichError(p)
  \/ \E p \in JobIds, chunk \in ButtonChunks : ReEnrichStdout(p, chunk)
  \/ \E p \in JobIds, chunk \in ButtonChunks : ReEnrichStderr(p, chunk)
  \/ \E p \in JobIds, code \in ExitCodes : ReEnrichClose(p, code)
  \/ \E p \in JobIds : ReEnrichError(p)

ButtonSpec == ButtonInit /\ [][ButtonNext]_vars

----------------------------------------------------------------------------
\* The leads table, leads-table.tsx, with the DELETE route it talks to.
\*   page.leads         the leads prop: the ids of the leads the server
\*                      rendered, and of those the unenriched ones
\*   page.selected, deletedIds, deleting, confirming, enrichingIds,
\*   page.enrichingBulk the useState values of the same names
\*   page.requests      the enrichment requests in flight, each with the
\*                      handler that sent it and the ids it carries
\*   page.del           the call of handleBulkDelete in progress or last
\*                      finished: idsToDelete, the response data it waits to
\*                      look at, whether it has finished, and `before`, the
\*                      deletedIds at the call, which is not in the source
\*   page.refresh       router.refresh() has been asked for and not yet run
\* POST /api/enrich/leads answers some time after the request, with an OK
\* status or another, or the fetch rejects; the table reads nothing else of
\* the response.

\* Array.from(set), in the order of the ids
RECURSIVE ArrayFrom(_)
ArrayFrom(set) ==
  IF set = {} THEN << >>
  ELSE LET least == CHOOSE x \in set : \A y \in set : x <= y
       IN  << least >> \o ArrayFrom(set \ {least})

\* JSON.stringify({ ids: idsToDelete }) as the route reads it
DeleteBody(ids) ==
  [json |-> "value", ids |-> Array([i \in 1..Cardinality(ids) |-> Num(ArrayFrom(ids)[i])])]

\* leads.filter((l) => !deletedIds.has(l.id)), as ids
visibleLeads == page.leads.ids \ page.deletedIds
\* visibleLeads.filter((l) => !l.isEnriched), as ids
unenrichedIds == visibleLeads \cap page.leads.unenriched
someSelected == page.selected # {}

TableInit ==
  /\ route = "leads"
  /\ now = 0
  /\ child = << >>
  /\ runningJobs = << >>
  /\ enrichJob = Null
  /\ reEnrichJob = Null
  /\ resp = [kind |-> "none"]
  /\ leads = [id \in LeadIds |-> Lead(id)]
  /\ calls = << >>
  /\ log = << >>
  /\ \E unenriched \in SUBSET LeadIds :
       page = [leads |-> [ids |-> LeadIds, unenriched |-> unenriched],
               selected |-> {}, deletedIds |-> {}, deleting |-> FALSE,
               confirming |-> FALSE, enrichingIds |-> {}, enrichingBulk |-> FALSE,
               requests |-> << >>, del |-> Null, refresh |-> FALSE]

TableUnchanged ==
  UNCHANGED <<route, now, child, runningJobs, enrichJob, reEnrichJob, resp,
              leads, calls, log>>

\* the checkbox of a row
toggleOne(id) ==
  /\ page # Null /\ id \in visibleLeads
  /\ page' = [page EXCEPT !.selected = IF id \in @ THEN @ \ {id} ELSE @ \cup {id}]
  /\ TableUnchanged

\* the checkbox of the header
toggleAll ==
  /\ page # Null /\ visibleLeads # {}
  /\ page' = [page EXCEPT
                 !.selected = IF Cardinality(@) = Cardinality(visibleLeads)
                              THEN {} ELSE visibleLeads]
  /\ TableUnchanged

\* "Clear selection"
clearSelection ==
  /\ page # Null /\ someSelected
  /\ page' = [page EXCEPT !.selected = {}, !.confirming = FALSE]
  /\ TableUnchanged

\* "Delete selected" and "Cancel": setConfirming(...)
setConfirming(value) ==
  /\ page # Null /\ someSelected /\ page.confirming # value
  /\ page' = [page EXCEPT !.confirming = value]
  /\ TableUnchanged

\* startTransition(() => { router.refresh(); }): the server renders the
\* leads of the store again
Refresh ==
  /\ page # Null /\ page.refresh
  /\ page' = [page EXCEPT !.refresh = FALSE,
                          !.leads.ids = DOMAIN leads,
                          !.leads.unenriched = @ \cap DOMAIN leads]
  /\ TableUnchanged

\* a click on the Enrich button of a row, disabled while isEnriching
handleEnrichSingle(leadId) ==
  /\ page # Null /\ leadId \in visibleLeads
  /\ leadId \notin page.enrichingIds
  /\ Len(page.requests) < MaxRequests
  /\ page' = [page EXCEPT
                 !.enrichingIds = @ \cup {leadId},
                 !.requests = Append(@, [by |-> "single", ids |-> {leadId}])]
  /\ TableUnchanged

\* a click on "Enrich selected", disabled while enrichingBulk
handleEnrichSelected ==
  /\ page # Null /\ someSelected /\ ~page.enrichingBulk
  /\ Len(page.requests) < MaxRequests
  /\ page' = [page EXCEPT
                 !.enrichingBulk = TRUE,
                 !.enrichingIds = @ \cup page.selected,
                 !.requests = Append(@, [by |-> "bulk", ids |-> page.selected])]
  /\ TableUnchanged

\* a click on "Enrich All", disabled while enrichingBulk or nothing to enrich
handleEnrichAll ==
  /\ page # Null /\ visibleLeads # {}
  /\ ~page.enrichingBulk /\ unenrichedIds # {}
  /\ Len(page.requests) < MaxRequests
  /\ page' = [page EXCEPT
                 !.enrichingBulk = TRUE,
                 !.enrichingIds = unenrichedIds,
                 !.requests = Append(@, [by |-> "bulk", ids |-> unenrichedIds])]
  /\ TableUnchanged

\* finally { ... } of the three handlers
AfterEnrich(table, request) ==
  IF request.by = "single"
  THEN [table EXCEPT !.enrichingIds = @ \ request.ids]
  ELSE [table EXCEPT !.enrichingBulk = FALSE, !.enrichingIds = {}]

\* the fetch of request r returns, with res.ok or not, or rejects
EnrichReturns(r, outcome) ==
  /\ page # Null /\ r \in 1..Len(page.requests)
  /\ page' = [AfterEnrich(page, page.requests[r]) EXCEPT
                 !.requests = Without(@, r),
                 !.refresh = IF outcome = "ok" THEN TRUE ELSE @]
  /\ TableUnchanged

\* the revert putting back every hidden lead
RevertAll(deletedIds, idsToDelete) == {}

\* idsToDelete.forEach((id) => next.delete(id))
Revert(deletedIds, idsToDelete) == deletedIds \ idsToDelete

\* a click on "Yes, delete", disabled while deleting
handleBulkDelete ==
  /\ page # Null /\ someSelected /\ page.confirming /\ ~page.deleting
  /\ page' = [page EXCEPT
                 !.deleting = TRUE,
                 !.deletedIds = @ \cup page.selected,
                 !.selected = {},
                 !.confirming = FALSE,
                 !.del = [ids |-> page.selected, before |-> page.deletedIds,
                          data |-> Null, done |-> FALSE]]
  /\ TableUnchanged

\* await fetch("/api/leads", { method: "DELETE", ... }): the route handles it
handleBulkDeleteFetch(dbOk) ==
  /\ page # Null /\ page.del # Null
  /\ ~page.del.done /\ page.del.data = Null
  /\ LeadsHandleDELETE(DeleteBody(page.del.ids), dbOk)
  /\ page' = [page EXCEPT !.del.data = [code |-> resp'.code]]

\* if (!res.ok) { revert } else { router.refresh() }; finally setDeleting(false)
handleBulkDeleteResponse ==
  /\ page # Null /\ page.del # Null
  /\ ~page.del.done /\ page.del.data # Null
  /\ page' = [page EXCEPT
                 !.deletedIds = IF page.del.data.code = 200 THEN @
                                ELSE Revert(@, page.del.ids),
                 !.refresh = IF page.del.data.code = 200 THEN TRUE ELSE @,
                 !.deleting = FALSE,
                 !.del.done = TRUE]
  /\ TableUnchanged

\* the fetch rejects: catch { revert }; finally setDeleting(false)
handleBulkDeleteCatch ==
  /\ page # Null /\ page.del # Null
  /\ ~page.del.done /\ page.del.data = Null
  /\ page' = [page EXCEPT
                 !.deletedIds = Revert(@, page.del.ids),
                 !.deleting = FALSE,
                 !.del.data = [code |-> 0],
                 !.del.done = TRUE]
  /\ TableUnchanged

Requests == 1..MaxRequests
Outcomes == {"ok", "not ok", "rejected"}

TableNext ==
  \/ \E id \in LeadIds : toggleOne(id)
  \/ toggleAll
  \/ clearSelection
  \/ \E value \in BOOLEAN : setConfirming(value)
  \/ Refresh
  \/ \E id \in LeadIds : handleEnrichSingle(id)
  \/ handleEnrichSelected
  \/ handleEnrichAll
  \/ \E r \in Requests, outcome \in Outcomes : EnrichReturns(r, outcome)
  \/ handleBulkDelete
  \/ \E dbOk \in BOOLEAN : handleBulkDeleteFetch(dbOk)
  \/ handleBulkDeleteResponse
  \/ handleBulkDeleteCatch

TableSpec == TableInit /\ [][TableNext]_vars

----------------------------------------------------------------------------
\* The scrape form, ScrapeForm of part_001.  A location is the string
\* `${city}, ${stateCode}`, kept as the pair it is made of.
\*   page.selectedCategories, selectedStates, selectedCities
\*                   the useState arrays of the same names
\*   page.submitted  the last call of onSubmit: its categories and locations,
\*                   with the selections and the "Total jobs to run" shown
\*                   at the click, which are not in the source

\* two of the states of US_STATES, and two of DEFAULT_CATEGORIES
US_STATES ==
  [AK |-> << "Anchorage", "Fairbanks", "Juneau" >>,
   AR |-> << "Little Rock", "Fort Smith", "Fayetteville" >>]
StateCodes == DOMAIN US_STATES
DEFAULT_CATEGORIES == {"Restaurants", "Plumbers"}

Location(city, code) == [city |-> city, state |-> code]
\* c.endsWith(`, ${code}`)
EndsWith(location, code) == location.state = code
CitiesOf(code) ==
  { Location(US_STATES[code][i], code) : i \in DOMAIN US_STATES[code] }

\* prev.includes(x) ? prev.filter((y) => y !== x) : [...prev, x]
Toggle(prev, x) ==
  IF \E i \in DOMAIN prev : prev[i] = x
  THEN SelectSeq(prev, LAMBDA y : y # x)
  ELSE Append(prev, x)

\* the locations of every city of the selected states, in order
RECURSIVE AllCities(_)
AllCities(states) ==
  IF states = << >> THEN << >>
  ELSE [i \in DOMAIN US_STATES[Head(states)] |->
          Location(US_STATES[Head(states)][i], Head(states))]
       \o AllCities(Tail(states))

\* getLocations
getLocations(form) ==
  IF Len(form.selectedCities) > 0 THEN form.selectedCities
  ELSE AllCities(form.selectedStates)

\* selectedCategories.length * (getLocations().length || 0)
totalJobs(form) == Len(form.selectedCategories) * Len(getLocations(form))

\* c.toLowerCase()
ToLowerCase(c) ==
  CASE c = "Restaurants" -> "restaurants"
    [] c = "Plumbers" -> "plumbers"
    [] OTHER -> c

FormInit ==
  /\ route = "form"
  /\ now = 0
  /\ child = << >>
  /\ runningJobs = << >>
  /\ enrichJob = Null
  /\ reEnrichJob = Null
  /\ resp = [kind |-> "none"]
  /\ leads = << >>
  /\ calls = << >>
  /\ log = << >>
  /\ page = [selectedCategories |-> << >>, selectedStates |-> << >>,
             selectedCities |-> << >>, submitted |-> Null]

FormUnchanged ==
  UNCHANGED <<route, now, child, runningJobs, enrichJob, reEnrichJob, resp,
              leads, calls, log>>

toggleCategory(cat) ==
  /\ route = "form"
  /\ page' = [page EXCEPT !.selectedCategories = Toggle(@, cat)]
  /\ FormUnchanged

\* toggleState: the city selections of the state are cleared
toggleState(code) ==
  /\ route = "form"
  /\ page' = [page EXCEPT
                 !.selectedStates = Toggle(@, code),
                 !.selectedCities = SelectSeq(@, LAMBDA c : ~EndsWith(c, code))]
  /\ FormUnchanged

\* toggleCity: the cities of a state are shown while the state is selected
toggleCity(cityLocation) ==
  /\ route = "form"
  /\ \E i \in DOMAIN page.selectedStates : page.selectedStates[i] = cityLocation.state
  /\ Len(Toggle(page.selectedCities, cityLocation)) <= MaxCities
  /\ page' = [page EXCEPT !.selectedCities = Toggle(@, cityLocation)]
  /\ FormUnchanged

\* a click on "Launch Scrape": handleSubmit calls onSubmit
handleSubmit ==
  /\ route = "form"
  /\ Len(page.selectedCategories) # 0 /\ Len(getLocations(page)) # 0
  /\ page' = [page EXCEPT !.submitted =
                 [categories |-> [i \in DOMAIN page.selectedCategories |->
                                    ToLowerCase(page.selectedCategories[i])],
                  locations |-> getLocations(page),
                  selectedStates |-> page.selectedStates,
                  selectedCities |-> page.selectedCities,
                  totalJobs |-> totalJobs(page)]]
  /\ FormUnchanged

FormNext ==
  \/ \E cat \in DEFAULT_CATEGORIES : toggleCategory(cat)
  \/ \E code \in StateCodes : toggleState(code)
  \/ \E code \in StateCodes : \E loc \in CitiesOf(code) : toggleCity(loc)
  \/ handleSubmit

FormSpec == FormInit /\ [][FormNext]_vars

----------------------------------------------------------------------------
Categories == {"", "plumbers"}
Locations  == {"", "Miami, FL"}
BodyLimits == {0, 50}
BodyDays   == {0}

Next ==
  \/ \E c \in Categories, l \in Locations, e \in Elapsed : ScrapePOST(c, l, e)
  \/ \E j \in JobIds, chunk \in ScrapeChunks : ScrapeStdout(j, chunk)
  \/ \E j \in JobIds, chunk \in ScrapeChunks : ScrapeStderr(j, chunk)
  \/ \E j \in JobIds, code \in ExitCodes : ScrapeClose(j, code)
  \/ \E j \in JobIds : ScrapeError(j)
  \/ \E j \in JobIds : ScrapeGET(j)
  \/ \E n \in BodyLimits, e \in Elapsed : EnrichPOST(n, e)
  \/ \E p \in JobIds, chunk \in EnrichChunks : EnrichStdout(p, chunk)
  \/ \E p \in JobIds, chunk \in EnrichChunks : EnrichStderr(p, chunk)
  \/ \E p \in JobIds, code \in ExitCodes : EnrichClose(p, code)
  \/ \E p \in JobIds : EnrichError(p)
  \/ EnrichGET
  \/ \E d \in BodyDays, n \in BodyLimits, e \in Elapsed : ReEnrichPOST(d, n, e)
  \/ \E p \in JobIds, chunk \in ReEnrichChunks : ReEnrichStdout(p, chunk)
  \/ \E p \in JobIds, chunk \in ReEnrichChunks : ReEnrichStderr(p, chunk)
  \/ \E p \in JobIds, code \in ExitCodes : ReEnrichClose(p, code)
  \/ \E p \in JobIds : ReEnrichError(p)
  \/ ReEnrichGET
  \/ \E body \in Bodies, dbOk \in BOOLEAN : LeadsDELETE(body, dbOk)
  \/ \E body \in Bodies : EnrichLeadsPOST(body)
  \/ \E c \in JobIds, chunk \in EnrichLeadsChunks : EnrichLeadsStdout(c, chunk)
  \/ \E c \in JobIds, chunk \in EnrichLeadsChunks : EnrichLeadsStderr(c, chunk)
  \/ \E c \in JobIds, code \in ExitCodes : EnrichLeadsClose(c, code)
  \/ \E c \in JobIds : EnrichLeadsError(c)

Spec == Init /\ [][Next]_vars

----------------------------------------------------------------------------
\* What the properties below speak of.  A job is named by the spawn number of
\* the child it was created for.

\* the job record j, while the route holds it
Held(j) ==
  CASE route = "scrape"   -> j \in DOMAIN runningJobs
    [] route = "enrich"   -> enrichJob # Null /\ enrichJob.ref = j
    [] route = "reenrich" -> reEnrichJob # Null /\ reEnrichJob.ref = j
    [] OTHER -> FALSE
JobOf(j) ==
  CASE route = "scrape"   -> runningJobs[j]
    [] route = "enrich"   -> enrichJob
    [] route = "reenrich" -> reEnrichJob

\* the body a GET for job j answers with, while the route holds the job
Polled(j) ==
  CASE route = "scrape"   -> ScrapeGETResponse(j).body
    [] route = "enrich"   -> EnrichGETResponse.body
    [] route = "reenrich" -> ReEnrichGETResponse.body

\* a step that is an event of child p
DataEvent(p) ==
  \/ \E chunk \in ScrapeChunks : ScrapeStdout(p, chunk) \/ ScrapeStderr(p, chunk)
  \/ \E chunk \in EnrichChunks : EnrichStdout(p, chunk) \/ EnrichStderr(p, chunk)
  \/ \E chunk \in ReEnrichChunks : ReEnrichStdout(p, chunk) \/ ReEnrichStderr(p, chunk)
CloseEvent(p, code) ==
  ScrapeClose(p, code) \/ EnrichClose(p, code) \/ ReEnrichClose(p, code)
ErrorEvent(p) == ScrapeError(p) \/ EnrichError(p) \/ ReEnrichError(p)
ChildEvent(p) ==
  DataEvent(p) \/ ErrorEvent(p) \/ \E code \in ExitCodes : CloseEvent(p, code)

\* C1: once a job's status has left "running" it is terminal: no later step
\* changes the status of that job again.
C1_TerminalStatus ==
  [][\A j \in JobIds :
       (Held(j) /\ JobOf(j).status # "running" /\ Held(j)')
         => JobOf(j)'.status = JobOf(j).status]_vars

\* C2: the percent a GET reports for a job never decreases as the job's
\* output grows.
C2_PercentMonotonic ==
  [][\A j \in JobIds :
       (Held(j) /\ Held(j)')
         => Polled(j)'.progress.percent >= Polled(j).progress.percent]_vars

\* C3: the percent a GET reports for a job is never above 100 and never
\* negative.
C3_PercentAtMost100 ==
  \A j \in JobIds :
    Held(j) => /\ Polled(j).progress.percent <= 100
               /\ Polled(j).progress.percent >= 0

\* C4: whenever a GET reports percent = 100 for a job, that job's status is
\* "completed".
C4_HundredOnlyAtCompleted ==
  \A j \in JobIds :
    (Held(j) /\ Polled(j).progress.percent = 100) => Polled(j).status = "completed"

\* C5: an event of the child of one job changes no other job: every job
\* record other than the one created for child p is the same after the event.
C5_OwnJobOnly ==
  [][\A p \in JobIds :
       ChildEvent(p) => \A j \in JobIds \ {p} :
                          (Held(j) /\ Held(j)') => JobOf(j)' = JobOf(j)]_vars

\* C6: a job's output is append-only: a GET answers with the output the job
\* holds, and the output a job holds before a step is a prefix of the output
\* it holds after it, so an earlier GET's output is a prefix of a later one's.
C6_AppendOnly ==
  /\ [](\A j \in JobIds : Held(j) => Polled(j).output = JobOf(j).output)
  /\ [][\A j \in JobIds :
         (Held(j) /\ Held(j)') => IsPrefix(JobOf(j).output, JobOf(j)'.output)]_vars

\* a GET has answered for a job whose output has grown to two lines or more
C6_Witness ==
  /\ resp.kind = "get" /\ resp.code = 200
  /\ \E j \in JobIds : Held(j) /\ Len(Polled(j).output) >= 2

\* C7: a data event leaves every job's status as it is, whatever the lines
\* say; a status changes to "failed" only in a 'close' with a code other than
\* 0 or in an 'error', to "completed" only in a 'close' with code 0, and
\* never back to "running".
C7_StatusOnlyByCloseOrError ==
  [][\A j \in JobIds :
       (Held(j) /\ Held(j)') =>
         /\ JobOf(j)'.status # JobOf(j).status => ~(\E p \in JobIds : DataEvent(p))
         /\ (JobOf(j)'.status # JobOf(j).status /\ JobOf(j)'.status = "failed")
              => \E p \in JobIds :
                   ErrorEvent(p) \/ \E code \in ExitCodes \ {0} : CloseEvent(p, code)
         /\ (JobOf(j)'.status # JobOf(j).status /\ JobOf(j)'.status = "completed")
              => \E p \in JobIds : CloseEvent(p, 0)
         /\ JobOf(j)'.status = "running" => JobOf(j).status = "running"]_vars

\* a job has completed with an error line in its output
C7_Witness ==
  \E j \in JobIds :
    /\ Held(j) /\ JobOf(j).status = "completed"
    /\ \E i \in 1..Len(JobOf(j).output) : JobOf(j).output[i] = ErrorLine

\* a step that is a scrape POST starting a job
ScrapeStart ==
  \E c \in Categories \ {""}, l \in Locations \ {""}, e \in Elapsed : ScrapePOST(c, l, e)

\* C8: a registry entry appears exactly in a scrape POST that starts a job,
\* one entry per POST; an entry disappears only in such a POST, and only if
\* its status is not "running" and its startedAt is more than ten minutes
\* before the time of the POST.
C8_RegistryLifecycle ==
  [][route = "scrape" =>
       LET added   == DOMAIN runningJobs' \ DOMAIN runningJobs
           removed == DOMAIN runningJobs \ DOMAIN runningJobs'
       IN  /\ ScrapeStart <=> added # {}
           /\ Cardinality(added) <= 1
           /\ removed # {} => ScrapeStart
           /\ \A id \in removed :
                /\ runningJobs[id].status # "running"
                /\ now' - runningJobs[id].startedAt > RetentionMs]_vars

\* a POST has started a job and pruned the finished job before it
C8_Witness ==
  /\ route = "scrape" /\ resp.kind = "started"
  /\ resp.jobId \in DOMAIN runningJobs
  /\ \E id \in Spawned : id \notin DOMAIN runningJobs

\* C9: a valid scrape POST adds one entry, with status "running", and answers
\* with its jobId while the child is still alive; a GET with the jobId of a
\* held entry answers 200 with that entry's status, output and progress; and
\* the entry of a job whose child is alive is held, so its GET is never a 404.
C9_JobHandle ==
  /\ [][ScrapeStart =>
          /\ resp'.kind = "started" /\ resp'.status = "running"
          /\ DOMAIN runningJobs' \ DOMAIN runningJobs = {resp'.jobId}
          /\ runningJobs'[resp'.jobId].status = "running"
          /\ child'[resp'.jobId] = "alive"]_vars
  /\ [](route = "scrape" =>
          \A j \in Spawned :
            /\ j \in DOMAIN runningJobs =>
                 /\ ScrapeGETResponse(j).code = 200
                 /\ ScrapeGETResponse(j).body.jobId = j
                 /\ ScrapeGETResponse(j).body.status = runningJobs[j].status
                 /\ ScrapeGETResponse(j).body.output = runningJobs[j].output
                 /\ ScrapeGETResponse(j).body.progress
                      = parseProgressScrape(runningJobs[j].output)
            /\ child[j] = "alive" =>
                 /\ ScrapeGETResponse(j).code = 200
                 /\ ScrapeGETResponse(j).body.status = "running")

\* a later POST has answered while a job more than ten minutes old is still
\* running and held
C9_Witness ==
  /\ route = "scrape" /\ resp.kind = "started"
  /\ \E j \in DOMAIN runningJobs :
       /\ j # resp.jobId /\ child[j] = "alive"
       /\ runningJobs[resp.jobId].startedAt - runningJobs[j].startedAt > RetentionMs

\* a step that is a request to the route
Request ==
  \/ \E c \in Categories, l \in Locations, e \in Elapsed : ScrapePOST(c, l, e)
  \/ \E j \in JobIds : ScrapeGET(j)
  \/ \E n \in BodyLimits, e \in Elapsed : EnrichPOST(n, e)
  \/ EnrichGET
  \/ \E d \in BodyDays, n \in BodyLimits, e \in Elapsed : ReEnrichPOST(d, n, e)
  \/ ReEnrichGET

\* C10: a running job can be asked to stop: while a job is running, some
\* request to its route stops its child or ends the job as "failed".
C10_CanBeStopped ==
  \A j \in JobIds :
    (Held(j) /\ JobOf(j).status = "running" /\ child[j] = "alive")
      => ENABLED (Request /\ (child'[j] # "alive" \/ ~Held(j)' \/ JobOf(j)'.status = "failed"))

----------------------------------------------------------------------------
\* The progress counters, on logs of any shape.

\* C11: as a scrape job's log grows, the leadsFound and the leadsNew its
\* parseProgress reports never decrease.
C11_LeadCountersMonotonic ==
  [][/\ resp'.scrape.leadsFound >= resp.scrape.leadsFound
     /\ resp'.scrape.leadsNew >= resp.scrape.leadsNew]_vars

\* round(100 * current / total), the nearest integer, a half rounding up
Round100(current, total) == (200 * current + total) \div (2 * total)

\* C12: for every log, the percent each parseProgress returns is
\* round(100 * current / total) of the current and total it returns when
\* total > 0, and 0 when the total is 0.
C12_PercentFormula ==
  \A p \in {resp.scrape, resp.enrich, resp.reenrich} :
    p.percent = IF p.total > 0 THEN Round100(p.current, p.total) ELSE 0

\* the log reports N > 0 stale leads and then k <= N per-lead lines
StaleThenEnriched ==
  /\ log # << >>
  /\ log[1].kind = "stale" /\ log[1].a > 0
  /\ \A i \in 2..Len(log) : log[i].kind = "enriched"
  /\ Len(log) - 1 <= log[1].a

\* C13: for a re-enrich log that reports N > 0 stale leads followed by
\* k <= N "Enriched:" lines, progress reports total = N, current = k and
\* percent = round(100 * k / N).
C13_ReEnrichProgress ==
  StaleThenEnriched =>
    /\ resp.reenrich.total = log[1].a
    /\ resp.reenrich.current = Len(log) - 1
    /\ resp.reenrich.percent = Round100(Len(log) - 1, log[1].a)

\* the per-page lines of a log
PageLines(output) == SelectSeq(output, LAMBDA l : l.kind = "found_new")
RECURSIVE SumFound(_)
SumFound(output) ==
  IF output = << >> THEN 0 ELSE Head(output).a + SumFound(Tail(output))
RECURSIVE SumNew(_)
SumNew(output) ==
  IF output = << >> THEN 0 ELSE Head(output).b + SumNew(Tail(output))

----------------------------------------------------------------------------
\* Requests that name leads.

\* the body's list names id as a number greater than 0
Names(body, id) ==
  /\ body.json = "value" /\ body.ids.is = "array"
  /\ id > 0
  /\ \E i \in 1..Len(body.ids.items) : body.ids.items[i] = Num(id)

\* what a DELETE does to the store: only named leads go, and with a 200 all
\* of them; the leads that stay are unchanged; only a DELETE changes the store
DeletesOnlyNamed ==
  /\ leads' # leads => \E body \in Bodies : LeadsDELETE(body, TRUE)
  /\ \A body \in Bodies, dbOk \in BOOLEAN :
       LeadsDELETE(body, dbOk) =>
         /\ \A id \in DOMAIN leads \ DOMAIN leads' : Names(body, id)
         /\ \A id \in DOMAIN leads \cap DOMAIN leads' : leads'[id] = leads[id]
         /\ DOMAIN leads' \subseteq DOMAIN leads
         /\ resp'.code = 200 => \A id \in DOMAIN leads' : ~Names(body, id)

\* C16 as stated: DELETE /api/leads removes only the leads whose id the ids
\* list names as a number greater than 0 and leaves every other lead
\* unchanged; a request whose ids is missing, not an array, empty or without
\* a valid id is answered with 400 and deletes nothing.
C16_DeleteOnlyById ==
  [][/\ DeletesOnlyNamed
     /\ \A body \in Bodies, dbOk \in BOOLEAN :
          (LeadsDELETE(body, dbOk) /\ \A id \in LeadIds : ~Names(body, id))
            => resp'.code = 400 /\ leads' = leads]_vars

\* C16 amended: as C16, but the 400 is the answer when the body is JSON other
\* than null; a body that is not JSON, or is null, is answered with 500; both
\* delete nothing.
C16_DeleteOnlyByIdAmended ==
  [][/\ DeletesOnlyNamed
     /\ \A body \in Bodies, dbOk \in BOOLEAN :
          (LeadsDELETE(body, dbOk) /\ \A id \in LeadIds : ~Names(body, id))
            => /\ leads' = leads
               /\ resp'.code = IF body.json = "value" THEN 400 ELSE 500]_vars

\* a DELETE has removed one lead and left another
C16_Witness ==
  /\ route = "leads" /\ resp.kind = "deleted" /\ resp.deleted = 1
  /\ DOMAIN leads # {}

\* the promise of call c is resolved, and the handler answers, in this step
Answers(c) == c \in DOMAIN calls /\ calls[c].result = Null /\ calls'[c].result # Null

\* the ids of the body's list that are numbers greater than 0, in order
Requested(body) ==
  SelectSeq(body.ids.items, LAMBDA id : \E n \in 1..MaxLeads : id = Num(n))

\* what a POST /api/enrich/leads with a listed lead does: it spawns a child
\* and does not answer yet; the answer comes in the step in which the child
\* closes or errors, with status completed exactly when that step is a close
\* with code 0, else failed, and with the requested valid ids as enrichedIds
EnrichesRequested ==
  /\ \A body \in Bodies :
       (EnrichLeadsPOST(body) /\ \E id \in LeadIds : Names(body, id))
         => /\ resp' = resp
            /\ \E c \in DOMAIN calls' \ DOMAIN calls :
                 /\ child'[c] = "alive"
                 /\ calls'[c].validIds = Requested(body)
                 /\ calls'[c].result = Null
  /\ \A c \in DOMAIN calls : calls'[c].validIds = calls[c].validIds
  /\ (resp' # resp /\ resp'.code = 200) => \E c \in DOMAIN calls : Answers(c)
  /\ \A c \in DOMAIN calls :
       Answers(c) =>
         /\ child[c] = "alive" /\ child'[c] # "alive"
         /\ resp'.code = 200
         /\ resp'.status = IF calls'[c].exit = [code |-> 0] THEN "completed"
                            ELSE "failed"
         /\ resp'.enrichedIds = calls[c].validIds

\* C17 as stated: a local POST /api/enrich/leads answers only after its child
\* has closed or errored, with status completed exactly when the child closed
\* with code 0 and failed otherwise, and with the requested ids that are
\* numbers greater than 0 as enrichedIds; a request with no valid id is
\* answered with 400 and spawns no process.
C17_EnrichLeadsResult ==
  [][route = "enrichleads" =>
       /\ EnrichesRequested
       /\ \A body \in Bodies :
            (EnrichLeadsPOST(body) /\ \A id \in LeadIds : ~Names(body, id))
              => resp'.code = 400 /\ child' = child]_vars

\* C17 amended: as C17, but the 400 is the answer when the body is JSON other
\* than null; a body that is not JSON, or is null, is answered with 500; both
\* spawn no process.
C17_EnrichLeadsResultAmended ==
  [][route = "enrichleads" =>
       /\ EnrichesRequested
       /\ \A body \in Bodies :
            (EnrichLeadsPOST(body) /\ \A id \in LeadIds : ~Names(body, id))
              => /\ child' = child
                 /\ resp'.code = IF body.json = "value" THEN 400 ELSE 500]_vars

\* a call for the leads 1 and 2 has been answered completed, with output
C17_Witness ==
  /\ route = "enrichleads" /\ resp.kind = "enriched"
  /\ resp.status = "completed"
  /\ resp.enrichedIds = << Num(1), Num(2) >>
  /\ resp.output # << >>

----------------------------------------------------------------------------
\* The singleton routes.

\* a step that is a POST to the enrich or the re-enrich route
SingletonPOST ==
  \/ \E n \in BodyLimits, e \in Elapsed : EnrichPOST(n, e)
  \/ \E d \in BodyDays, n \in BodyLimits, e \in Elapsed : ReEnrichPOST(d, n, e)

\* C18: on the enrich and the re-enrich route at most one child process is
\* alive at any time, and a POST made while a child of the route has not yet
\* closed is rejected with 409, spawns nothing and leaves the job record
\* unchanged.
C18_SingleChild ==
  /\ [](route \in {"enrich", "reenrich"}
          => Cardinality({ p \in Spawned : child[p] = "alive" }) <= 1)
  /\ [][(SingletonPOST /\ \E p \in Spawned : child[p] # "closed")
          => /\ resp'.code = 409
             /\ child' = child
             /\ enrichJob' = enrichJob /\ reEnrichJob' = reEnrichJob]_vars

\* C19: a job whose child has closed, or has failed with an error, is not
\* running: the record the route holds for it has the status completed or
\* failed, and that is the status a GET for the job reports.
C19_ClosedIsTerminal ==
  \A j \in JobIds :
    (Held(j) /\ child[j] # "alive")
      => /\ JobOf(j).status \in {"completed", "failed"}
         /\ Polled(j).status = JobOf(j).status

\* a GET has answered for a job whose child has closed with code 0
C19_Witness ==
  /\ resp.kind = "get" /\ resp.code = 200
  /\ \E j \in JobIds :
       Held(j) /\ child[j] = "closed" /\ Polled(j).status = "completed"

----------------------------------------------------------------------------
\* the POSTs a call of startScrape has issued for the pair (category, location)
PostsFor(start, category, location) ==
  { k \in DOMAIN start.sent : /\ start.sent[k].category = category
                              /\ start.sent[k].location = location }

\* C15: startScrape issues exactly one POST /api/scrape per (category,
\* location) pair of the submitted sets: never a second one for a pair, and
\* when its loops have ended, one for every pair, whether or not the POSTs
\* before it threw or came back without a jobId.
C15_OnePostPerPair ==
  (page # Null /\ page.start # Null) =>
    LET start == page.start IN
    \A c \in DOMAIN start.categories, l \in DOMAIN start.locations :
      LET posts == PostsFor(start, start.categories[c], start.locations[l])
      IN  /\ Cardinality(posts) <= 1
          /\ LoopsDone(start) => Cardinality(posts) = 1

\* a call of startScrape has ended whose first POST started no job and whose
\* second POST started one
C15_Witness ==
  /\ page # Null /\ page.start # Null
  /\ LoopsDone(page.start)
  /\ Len(page.start.sent) = 2
  /\ page.start.sent[1].outcome \in {"threw", "nojob"}
  /\ page.start.sent[2].outcome = "job"

\* C20: on the scrape page a job recorded as completed or failed is never set
\* back to running, and the output shown for a job never becomes shorter.
C20_StatusNeverRegresses ==
  [][ page # Null =>
        \A i \in DOMAIN page.jobs : \A k \in DOMAIN page'.jobs :
          page'.jobs[k].jobId = page.jobs[i].jobId =>
            /\ page.jobs[i].status \in {"completed", "failed"}
                  => page'.jobs[k].status # "running"
            /\ Len(page'.jobs[k].output) >= Len(page.jobs[i].output) ]_vars

\* C21: a job the page shows as running can still be polled: it is in the
\* registry, so a GET for it is answered with its jobId and status. A job
\* that has left the registry never comes back, every later GET for it is
\* answered with no jobId, and the page keeps it as running and polls on.
C21_RunningJobIsPollable ==
  page # Null =>
    \A i \in DOMAIN page.jobs :
      page.jobs[i].status = "running" => page.jobs[i].jobId \in DOMAIN runningJobs

----------------------------------------------------------------------------
\* the job record of the button's route
ButtonJob == IF route = "enrich" THEN enrichJob ELSE reEnrichJob

\* the button shows completed or failed
ShowsDone(state) == state.status \in {"completed", "failed"}

\* C22: after a click the button shows running until the job it starts has
\* ended: the button does not show completed or failed at the step in which
\* its POST starts the job, and no poll response takes it from running to
\* completed or failed while the job is running.
C22_ButtonShowsRunning ==
  [][ page # Null =>
        /\ (\E n \in ButtonLimits, e \in Elapsed : startEnrichFetch(n, e))
              => ~ShowsDone(page.state)
        /\ ( /\ \E i \in Polls : pollResponse(i)
             /\ ButtonJob # Null /\ ButtonJob.status = "running"
             /\ page.state.status = "running" )
              => ~ShowsDone(page'.state) ]_vars

----------------------------------------------------------------------------
\* C24: when the last line logged is the summary "Total: T | Success: S", the
\* progress.current each of the three parsers reports is S.
C24_CurrentCountsSuccesses ==
  (route = "parse" /\ log # << >> /\ log[Len(log)].kind = "total") =>
    /\ resp.enrich.current = log[Len(log)].b
    /\ resp.scrape.current = log[Len(log)].b
    /\ resp.reenrich.current = log[Len(log)].b

----------------------------------------------------------------------------
\* C23: while an enrichment request of the table that carries a lead is in
\* flight, the lead is in enrichingIds, so its Enrich button is disabled.
C23_InFlightLeadIsEnriching ==
  (route = "leads" /\ page # Null) =>
    \A r \in DOMAIN page.requests : page.requests[r].ids \subseteq page.enrichingIds

\* C25: handleBulkDelete hides the leads it was called for at once; when the
\* DELETE has come back not OK or the fetch has rejected, deletedIds is what
\* it was before the call; when the DELETE has come back OK, the leads are
\* still hidden.
C25_OptimisticDelete ==
  (route = "leads" /\ page # Null /\ page.del # Null) =>
    LET del == page.del IN
    /\ ~del.done => del.ids \subseteq page.deletedIds
    /\ (del.done /\ del.data.code # 200) => page.deletedIds = del.before
    /\ (del.done /\ del.data.code = 200) =>
         /\ del.ids \subseteq page.deletedIds
         /\ del.before \subseteq page.deletedIds

\* a bulk delete failed after an earlier one had succeeded: the leads of the
\* earlier one are hidden, the leads of the failed one are back
C25_Witness ==
  /\ route = "leads" /\ page # Null /\ page.del # Null
  /\ page.del.done /\ page.del.data.code # 200
  /\ page.del.before # {}
  /\ page.deletedIds = page.del.before
  /\ page.del.ids # {}

----------------------------------------------------------------------------
\* the elements of a sequence
Range(seq) == { seq[i] : i \in DOMAIN seq }

\* C26: the locations the form launches hold, for every selected state with
\* no city picked, all cities of the state, and for a state with picked
\* cities, those cities only; and the "Total jobs to run" shown is the number
\* of (category, location) pairs handed to startScrape.
C26_LocationsLaunched ==
  (route = "form" /\ page.submitted # Null) =>
    LET sub == page.submitted IN
    /\ \A code \in Range(sub.selectedStates) :
         LET picked == Range(sub.selectedCities) \cap CitiesOf(code)
         IN  Range(sub.locations) \cap CitiesOf(code) =
               IF picked = {} THEN CitiesOf(code) ELSE picked
    /\ sub.totalJobs = Len(sub.categories) * Len(sub.locations)

====
